---- MODULE Spec2Model ----
(***************************************************************************)
(* The activity-aggregation hook useGitHubActivity (src/src/lib/hooks.ts,  *)
(* lines 267-510) as a state machine: the React state it owns (activities, *)
(* loading, error), the aggregation cycles its effect starts, each with    *)
(* its own AbortController, and the store the cycles query; and the         *)
(* registration endpoint POST /api/addRepo (src/api/index.ts, lines 15-89) *)
(* with the existence probe, the configuration file and the ingestion      *)
(* process it drives.                                                      *)
(*                                                                         *)
(* Time is counted in ticks of UTC, Day ticks to a calendar day: tick 0 of  *)
(* a day is 00:00:00.000 and tick Day-1 is 23:59:59.999.                   *)
(***************************************************************************)
EXTENDS Integers, Sequences, FiniteSets, TLC

VARIABLES
    props,       \* the hook's arguments at the latest render
    mounted,     \* the mount effect has run
    activities,  \* useState<Activity[]>([])
    loading,     \* useState<boolean>(true)
    error,       \* useState<string | null>(null)
    cyc,         \* the cycles awaiting the store, oldest first: the closure of
                 \* fetchData and its controller
    nRepos,      \* the store's repositories table holds the repositories 1..nRepos
    store,       \* the store's four activity tables
    fault,       \* history: the tables whose query failed in the settlement the last
                 \* step handled
    dirty,       \* a state setter has changed the state since the last render: React
                 \* will render the component again
    offset,      \* the local time zone of the browser: local time is UTC + offset ticks
    req,         \* the POST /api/addRepo request the server is handling
    responses,   \* the responses sent to that request, in order
    config,      \* the lines appended to config.properties
    calls        \* history: the external calls made for that request, in order

hookVars == <<props, mounted, activities, loading, error, cyc, nRepos, store, fault, dirty, offset>>
serverVars == <<req, responses, config, calls>>
vars == <<props, mounted, activities, loading, error, cyc, nRepos, store, fault, dirty,
          offset,           req, responses, config, calls>>

-----------------------------------------------------------------------------
(* Bounds of the model *)

\* cycles that can be in flight (awaiting the store) at the same time
MaxInFlight == 2

\* repositories the ingestion can add to the registry
MaxRepos == 2

\* queries of one cycle that the store can answer with an error
MaxFailed == 1

\* characters of a repository name a client posts
MaxLen == 3

\* lines the requests append to config.properties
MaxLines == 2

\* chunks the ingestion process writes to one stream
MaxChunks == 1

-----------------------------------------------------------------------------
(* Values *)

Null == -1
Missing == 0
NoError == "null"
Undefined == "undefined"

Day == 3

\* the readings of the clock (new Date()) a cycle can get: 301 is the middle of
\* day 100, 305 the end of day 101
Clock == {301, 305}

RepoName(id) == <<"acme/widgets", "acme/gadgets", "acme/sprockets", "acme/cogs">>[id]

\* the rows of the repositories table when it holds n repositories
Repositories(n) == {[id |-> r, name |-> RepoName(r)] : r \in 1..n}

Kinds == {"commits", "pull_requests", "issues", "reviews"}

-----------------------------------------------------------------------------
(* The activity tables of the store. A row is visible once its repository  *)
(* is registered (foreign key repository_id).                              *)

Commit(id, repo, author, at, created) ==
    [id |-> id, repository_id |-> repo, message |-> "message of " \o id, author |-> author,
     committed_at |-> at, created_at |-> created]

PullRequest(id, repo, author, at) ==
    [id |-> id, repository_id |-> repo, title |-> "title of " \o id, author |-> author,
     created_at |-> at]

Issue(id, repo, author, at) ==
    [id |-> id, repository_id |-> repo, title |-> "title of " \o id, author |-> author,
     created_at |-> at]

Review(id, repo, author, at) ==
    [id |-> id, repository_id |-> repo, comment |-> "comment of " \o id, author |-> author,
     created_at |-> at]

Table(kind) == store[kind]

-----------------------------------------------------------------------------
(* Dates (hooks.ts 301-329) *)

\* the local calendar day the instant t falls on
LocalDay(t) == (t + offset) \div Day

\* Date.setHours(0, 0, 0, 0): the first instant of the local day of t
StartOfDay(t) == LocalDay(t) * Day - offset

\* Date.setHours(23, 59, 59, 999): the last instant of the local day of t
EndOfDay(t) == LocalDay(t) * Day + (Day - 1) - offset

\* Date.setDate(getDate() - n)
SubDays(t, n) == t - n * Day

\* new Date("YYYY-MM-DD"): a calendar date is given as its day number; a date-only
\* text is read as midnight UTC of that day
ParseDate(d) == d * Day

\* the switch on dateRange; a range that is no case subtracts nothing
PresetDays(range) ==
    CASE range = "7d" -> 7
      [] range = "30d" -> 30
      [] range = "90d" -> 90
      [] OTHER -> 0

\* a guard that stops only when both dates are missing; C7 does not hold of it
CustomBothMissing(i) ==
    i.dateRange = "custom" /\ (i.startDate = Missing /\ i.endDate = Missing)

\* !startDate || !endDate
CustomIncomplete(i) ==
    i.dateRange = "custom" /\ (i.startDate = Missing \/ i.endDate = Missing)

\* const now = new Date(): the clock is read for a preset range only
ClockRead(i, now) ==
    IF i.dateRange # "all" /\ ~(i.dateRange = "custom" /\ i.startDate # Missing /\ i.endDate # Missing)
    THEN now ELSE Null

\* <<dateFilter, endDateFilter>> of a cycle started at clock reading now
DateBounds(i, now) ==
    IF i.dateRange = "custom" /\ i.startDate # Missing /\ i.endDate # Missing
    THEN <<StartOfDay(ParseDate(i.startDate)), EndOfDay(ParseDate(i.endDate))>>
    ELSE IF i.dateRange # "all"
    THEN <<StartOfDay(SubDays(EndOfDay(now), PresetDays(i.dateRange))), EndOfDay(now)>>
    ELSE <<Null, Null>>

-----------------------------------------------------------------------------
(* Scope resolution (hooks.ts 346-358) *)

\* a resolution in which a single selection overrides the set; C24 does not hold of it
SingleSelectionFirst(i, repos) ==
    IF i.selectedRepo # "all" THEN {r \in repos : r.name = i.selectedRepo}
    ELSE IF i.selectedRepos # {} THEN {r \in repos : r.name \in i.selectedRepos}
    ELSE repos

filteredRepos(i, repos) ==
    IF i.selectedRepos # {}
    THEN {r \in repos : r.name \in i.selectedRepos}
    ELSE IF i.selectedRepo = "all" THEN repos
    ELSE {r \in repos : r.name = i.selectedRepo}

repoIds(filtered) == {r.id : r \in filtered}

repoNames(filtered) == [id \in repoIds(filtered) |-> (CHOOSE r \in filtered : r.id = id).name]

-----------------------------------------------------------------------------
(* The four activity queries (hooks.ts 362-450) *)

\* every kind bounded on created_at; C10 does not hold of it
CreatedAtOnly(kind) == "created_at"

\* the column a query on the table kind is bounded and ordered on
DateField(kind) == IF kind = "commits" THEN "committed_at" ELSE "created_at"

\* a query that is not restricted to the scope; C9 does not hold of it
AnyRepository(row, ids) == TRUE

\* .in('repository_id', repoIds)
InRepositories(row, ids) == row.repository_id \in ids

\* a filter that looks at the author set first; C15 does not hold of it
AuthorSetFirst(row, i) ==
    IF i.selectedUsers # {} THEN row.author \in i.selectedUsers
    ELSE IF i.searchUsername # "" THEN row.author = i.searchUsername
    ELSE TRUE

\* .eq('author', searchUsername) / .in('author', selectedUsers)
AuthorFilter(row, i) ==
    IF i.searchUsername # "" THEN row.author = i.searchUsername
    ELSE IF i.selectedUsers # {} THEN row.author \in i.selectedUsers
    ELSE TRUE

\* .gte(dateField, dateFilter) and .lte(dateField, endDateFilter), each only when set
applyDateFilters(row, dateFilter, endDateFilter, dateField) ==
    /\ dateFilter # Null => row[dateField] >= dateFilter
    /\ endDateFilter # Null => row[dateField] <= endDateFilter

\* the rows the store selects for cycle c's query on the table kind
Query(kind, c) ==
    { row \in Table(kind) :
        /\ row.repository_id <= nRepos
        /\ InRepositories(row, repoIds(c.filtered))
        /\ AuthorFilter(row, c.inp)
        /\ applyDateFilters(row, c.dateFilter, c.endDateFilter, DateField(kind)) }

\* the orders in which the rows of a response can arrive
Orders(S) ==
    { s \in [1..Cardinality(S) -> S] : \A a, b \in 1..Cardinality(S) : a # b => s[a] # s[b] }

-----------------------------------------------------------------------------
(* Normalize, merge, sort (hooks.ts 458-495) *)

Lookup(names, id) == IF id \in DOMAIN names THEN names[id] ELSE Undefined

Normalize(kind, row, names) ==
    CASE kind = "commits" ->
           [type |-> "commit", title |-> row.message, author |-> row.author,
            date |-> row.committed_at, repository |-> Lookup(names, row.repository_id)]
      [] kind = "pull_requests" ->
           [type |-> "pr", title |-> row.title, author |-> row.author,
            created_at |-> row.created_at, date |-> row.created_at,
            repository |-> Lookup(names, row.repository_id)]
      [] kind = "issues" ->
           [type |-> "issue", title |-> row.title, author |-> row.author,
            created_at |-> row.created_at, date |-> row.created_at,
            repository |-> Lookup(names, row.repository_id)]
      [] kind = "reviews" ->
           [type |-> "review", title |-> row.comment, author |-> row.author,
            date |-> row.created_at, repository |-> Lookup(names, row.repository_id)]

\* a response of the store client: { data, error }, data null when error is set
Data(rows) == [data |-> [null |-> FALSE, rows |-> rows], error |-> NoError]
Failure(msg) == [data |-> [null |-> TRUE], error |-> msg]

\* res.data?.map(...) ?? []
Mapped(kind, res, names) ==
    IF res.data.null THEN <<>>
    ELSE [k \in 1..Len(res.data.rows) |-> Normalize(kind, res.data.rows[k], names)]

\* a merge that leaves the reviews out; C20 does not hold of it
WithoutReviews(res, names) ==
    Mapped("commits", res["commits"], names)
      \o Mapped("pull_requests", res["pull_requests"], names)
      \o Mapped("issues", res["issues"], names)

allActivities(res, names) ==
    Mapped("commits", res["commits"], names)
      \o Mapped("pull_requests", res["pull_requests"], names)
      \o Mapped("issues", res["issues"], names)
      \o Mapped("reviews", res["reviews"], names)

\* new Date(a.date).getTime()
GetTime(a) == a.date

\* x goes behind every element that does not come after it in the order
Insert(sorted, x) ==
    LET n == Len(sorted)
        later == {k \in 1..n : GetTime(sorted[k]) < GetTime(x)}
        at == IF later = {} THEN n
              ELSE (CHOOSE k \in later : \A j \in later : k <= j) - 1
    IN SubSeq(sorted, 1, at) \o <<x>> \o SubSeq(sorted, at + 1, n)

RECURSIVE SortFrom(_, _)
SortFrom(sorted, rest) ==
    IF rest = <<>> THEN sorted ELSE SortFrom(Insert(sorted, Head(rest)), Tail(rest))

\* the merged sequence left as the store's orders make it; C8 does not hold of it
Unsorted(seq) == seq

\* Array.sort((a, b) => time(b) - time(a)): stable, latest first
SortByDate(seq) == SortFrom(<<>>, seq)

-----------------------------------------------------------------------------
(* The cycles *)

\* the messages a failure of the store can carry (err.message)
Messages == {"", "store unavailable"}

\* err.message || 'Failed to fetch activity data'
ErrorText(msg) == IF msg = "" THEN "Failed to fetch activity data" ELSE msg

Remove(cs, s) == SubSeq(cs, 1, s - 1) \o SubSeq(cs, s + 1, Len(cs))

\* a cleanup that signals nothing; C16 does not hold of it
NoCleanup(cs) == cs

\* controller.abort(), the effect's cleanup: it signals the token of the cycle the
\* previous effect started
Cleanup(cs) ==
    [s \in 1..Len(cs) |-> IF ~cs[s].aborted THEN [cs[s] EXCEPT !.aborted = TRUE] ELSE cs[s]]

\* an effect that does not look at shouldFetchData; C6 does not hold of it
EffectUnguarded(i, now, cs) ==
    IF CustomIncomplete(i)
    THEN /\ loading' = FALSE
         /\ error' = NoError
         /\ cyc' = cs
         /\ UNCHANGED activities
    ELSE /\ Len(cs) < MaxInFlight
         /\ loading' = TRUE
         /\ error' = NoError
         /\ cyc' = Append(cs, [pc |-> "registry", aborted |-> FALSE, inp |-> i,
                               now |-> ClockRead(i, now),
                               dateFilter |-> DateBounds(i, now)[1],
                               endDateFilter |-> DateBounds(i, now)[2],
                               sent |-> nRepos, filtered |-> {}])
         /\ UNCHANGED activities

\* an effect whose fetchData does not reset error; C17 does not hold of it
EffectKeepsError(i, now, cs) ==
    IF ~i.shouldFetchData
    THEN /\ loading' = FALSE
         /\ cyc' = cs
         /\ UNCHANGED <<activities, error>>
    ELSE IF CustomIncomplete(i)
    THEN /\ loading' = FALSE
         /\ cyc' = cs
         /\ UNCHANGED <<activities, error>>
    ELSE /\ Len(cs) < MaxInFlight
         /\ loading' = TRUE
         /\ cyc' = Append(cs, [pc |-> "registry", aborted |-> FALSE, inp |-> i,
                               now |-> ClockRead(i, now),
                               dateFilter |-> DateBounds(i, now)[1],
                               endDateFilter |-> DateBounds(i, now)[2],
                               sent |-> nRepos, filtered |-> {}])
         /\ UNCHANGED <<activities, error>>

\* the effect (hooks.ts 281-507) with arguments i, up to fetchData's first await
Effect(i, now, cs) ==
    IF ~i.shouldFetchData
    THEN /\ loading' = FALSE
         /\ cyc' = cs
         /\ UNCHANGED <<activities, error>>
    ELSE IF CustomIncomplete(i)
    THEN /\ loading' = FALSE
         /\ error' = NoError
         /\ cyc' = cs
         /\ UNCHANGED activities
    ELSE /\ Len(cs) < MaxInFlight
         /\ loading' = TRUE
         /\ error' = NoError
         /\ cyc' = Append(cs, [pc |-> "registry", aborted |-> FALSE, inp |-> i,
                               now |-> ClockRead(i, now),
                               dateFilter |-> DateBounds(i, now)[1],
                               endDateFilter |-> DateBounds(i, now)[2],
                               sent |-> nRepos, filtered |-> {}])
         /\ UNCHANGED activities

\* React schedules a render when a setter stores a value that is not the one it
\* held: a new array always, a boolean or a text when it differs
Schedules(setsActivities) ==
    setsActivities \/ loading' # loading \/ error' # error

\* a catch block that shows no error; C22 does not hold of it
CatchSilent(s, msg) ==
    /\ cyc' = Remove(cyc, s)
    /\ IF cyc[s].aborted
       THEN UNCHANGED <<activities, loading, error>>
       ELSE /\ loading' = FALSE
            /\ UNCHANGED <<activities, error>>

\* the catch and finally blocks (hooks.ts 496-502) of the cycle cyc[s]
Catch(s, msg) ==
    /\ cyc' = Remove(cyc, s)
    /\ IF cyc[s].aborted
       THEN UNCHANGED <<activities, loading, error>>
       ELSE /\ error' = ErrorText(msg)
            /\ loading' = FALSE
            /\ UNCHANGED activities

\* the first render: the effect runs with the initial arguments
Mount(now) ==
    /\ ~mounted
    /\ mounted' = TRUE
    /\ Effect(props, now, cyc)
    /\ dirty' = Schedules(FALSE)
    /\ fault' = {}
    /\ UNCHANGED <<props, nRepos, store, offset, serverVars>>

\* a render with new arguments: a dependency of the effect has changed, so the
\* cleanup of the previous effect runs, then the effect (hooks.ts 506-507)
Rerender(i, now) ==
    /\ mounted
    /\ i # props
    /\ props' = i
    /\ Effect(i, now, Cleanup(cyc))
    /\ dirty' = Schedules(FALSE)
    /\ fault' = {}
    /\ UNCHANGED <<mounted, nRepos, store, offset, serverVars>>

\* the render React schedules after a state change, with the caller's arguments as
\* they were. A caller that leaves selectedRepos and selectedUsers out gets the
\* defaults [] (hooks.ts 274-275), two new arrays at every render: the dependencies
\* (hooks.ts 507) differ from the previous ones and the cleanup and the effect run.
\* With the arrays passed no dependency has changed and the effect does not run.
Render(now) ==
    /\ mounted
    /\ dirty
    /\ IF props.defaultArrays
       THEN /\ Effect(props, now, Cleanup(cyc))
            /\ dirty' = Schedules(FALSE)
       ELSE /\ dirty' = FALSE
            /\ UNCHANGED <<activities, loading, error, cyc>>
    /\ fault' = {}
    /\ UNCHANGED <<props, mounted, nRepos, store, offset, serverVars>>

\* the registry query of the cycle cyc[s] fails: reposError is thrown, or the await
\* throws (hooks.ts 332-338, 496-502)
RegistryFails(s, msg) ==
    /\ s \in 1..Len(cyc)
    /\ cyc[s].pc = "registry"
    /\ Catch(s, msg)
    /\ dirty' = (dirty \/ Schedules(FALSE))
    /\ fault' = {"repositories"}
    /\ UNCHANGED <<props, mounted, nRepos, store, offset, serverVars>>

\* the registry query is answered with no repository (hooks.ts 339-343, 500-502):
\* the registry was empty when the query was sent
RegistryEmpty(s) ==
    /\ s \in 1..Len(cyc)
    /\ cyc[s].pc = "registry"
    /\ cyc[s].sent = 0
    /\ activities' = <<>>
    /\ loading' = FALSE
    /\ cyc' = Remove(cyc, s)
    /\ dirty' = TRUE
    /\ fault' = {}
    /\ UNCHANGED <<props, mounted, error, nRepos, store, offset, serverVars>>

\* the registry query is answered with the repositories 1..n, the registry as it
\* was at some moment since the query was sent; the cycle resolves its scope and
\* sends the four activity queries (hooks.ts 344-451)
RegistryData(s, n) ==
    /\ s \in 1..Len(cyc)
    /\ cyc[s].pc = "registry"
    /\ n \in cyc[s].sent..nRepos
    /\ n > 0
    /\ cyc' = [cyc EXCEPT ![s].pc = "queries", ![s].sent = 0,
                          ![s].filtered = filteredRepos(cyc[s].inp, Repositories(n))]
    /\ fault' = {}
    /\ UNCHANGED <<props, mounted, activities, loading, error, nRepos, store, dirty, offset,
                   serverVars>>

\* the responses the query of cycle c on the table kind can get: the selected rows
\* in some order, or an error and no data if the query is one of the failed
ResponseOf(kind, c, failed) ==
    IF kind \in failed THEN {Failure("store unavailable")}
    ELSE {Data(o) : o \in Orders(Query(kind, c))}

\* the responses the four queries of cycle c can get
Responses(c, failed) ==
    { [commits |-> rc, pull_requests |-> rp, issues |-> ri, reviews |-> rr] :
        rc \in ResponseOf("commits", c, failed),
        rp \in ResponseOf("pull_requests", c, failed),
        ri \in ResponseOf("issues", c, failed),
        rr \in ResponseOf("reviews", c, failed) }

\* Promise.all rejects: the promise of the query on the table kind was rejected
\* (hooks.ts 374, 496-502)
QueriesReject(s, kind, msg) ==
    /\ s \in 1..Len(cyc)
    /\ cyc[s].pc = "queries"
    /\ Catch(s, msg)
    /\ dirty' = (dirty \/ Schedules(FALSE))
    /\ fault' = {kind}
    /\ UNCHANGED <<props, mounted, nRepos, store, offset, serverVars>>

\* Promise.all resolves with the four responses; the store has answered the queries
\* in failed with { data: null, error } and the others with their rows
\* (hooks.ts 374, 456-495, 500-502)
QueriesResolve(s, failed) ==
    /\ s \in 1..Len(cyc)
    /\ cyc[s].pc = "queries"
    /\ Cardinality(failed) <= MaxFailed
    /\ cyc' = Remove(cyc, s)
    /\ fault' = failed
    /\ IF cyc[s].aborted
       THEN UNCHANGED <<activities, loading, error, dirty>>
       ELSE /\ \E res \in Responses(cyc[s], failed) :
                 activities' = SortByDate(allActivities(res, repoNames(cyc[s].filtered)))
            /\ loading' = FALSE
            /\ dirty' = TRUE
            /\ UNCHANGED error
    /\ UNCHANGED <<props, mounted, nRepos, store, offset, serverVars>>

\* the ingestion adds a repository to the registry
StoreAddRepository ==
    /\ nRepos < MaxRepos
    /\ nRepos' = nRepos + 1
    /\ fault' = {}
    /\ UNCHANGED <<props, mounted, activities, loading, error, cyc, store, dirty, offset,
                   serverVars>>

-----------------------------------------------------------------------------
(* The registration endpoint (src/api/index.ts 15-89). A text is the sequence *)
(* of its pieces: a repository name is spelled character by character, a      *)
(* template literal is the concatenation of its pieces.                       *)

Letters ==
    {"a", "b", "c", "d", "e", "f", "g", "h", "i", "j", "k", "l", "m", "n", "o", "p", "q",
     "r", "s", "t", "u", "v", "w", "x", "y", "z", "A", "B", "C", "D", "E", "F", "G", "H",
     "I", "J", "K", "L", "M", "N", "O", "P", "Q", "R", "S", "T", "U", "V", "W", "X", "Y",
     "Z"}

Digits == {"0", "1", "2", "3", "4", "5", "6", "7", "8", "9"}

\* the character class [a-zA-Z0-9_.-]
NameChar(c) == c \in Letters \cup Digits \cup {"_", ".", "-"}

\* /^.+\/.+$/: any character on both sides of a slash; C11 does not hold of it
AnyCharPattern(repoName) ==
    \E k \in 1..Len(repoName) : repoName[k] = "/" /\ k > 1 /\ k < Len(repoName)

\* /^[a-zA-Z0-9_.-]+\/[a-zA-Z0-9_.-]+$/.test(repoName)
RepoNamePattern(repoName) ==
    \E k \in 1..Len(repoName) :
        /\ repoName[k] = "/"
        /\ k > 1
        /\ k < Len(repoName)
        /\ \A j \in 1..(k - 1) : NameChar(repoName[j])
        /\ \A j \in (k + 1)..Len(repoName) : NameChar(repoName[j])

\* res.status(status).json(body)
Reply(status, body) == [status |-> status, body |-> body]

\* the request as it is after the handler's last statement
Done(r) == [r EXCEPT !.pc = "done"]

\* what the probe's fetch can do: answer with a status, or throw
ProbeResults ==
    {[thrown |-> FALSE, status |-> st] : st \in {200, 403, 404}}
      \cup {[thrown |-> TRUE, status |-> 0]}

\* no fetch has settled yet
NoResult == [thrown |-> FALSE, status |-> 0]

\* the handler's locals when the request repoName arrives: the probe's result and
\* the exit code are history, kept as they were when the handler last saw them
Request(pc, repoName) ==
    [pc |-> pc, repoName |-> repoName, probe |-> NoResult,
     stdoutData |-> <<>>, stderrData |-> <<>>, code |-> Null]

\* a probe for which only 404 means that the repository does not exist; C27 does not
\* hold of it
OnlyNotFoundIsAbsent(result) == ~result.thrown /\ result.status # 404

\* checkRepoExists: response.ok, and false when fetch throws
checkRepoExists(result) ==
    IF result.thrown THEN FALSE ELSE result.status >= 200 /\ result.status <= 299

\* the exit codes the close event can carry; null when a signal ended the process
ExitCodes == {0, 1, Null}

\* ${code} in a template literal
CodeText(code) == IF code = 0 THEN <<"0">> ELSE IF code = 1 THEN <<"1">> ELSE <<"null">>

\* a 404 text that does not name the repository; C12 does not hold of it
NotFoundBare(repoName) == <<"Repository not found on GitHub">>

\* `Repository ${repoName} not found on GitHub`
NotFoundMessage(repoName) == <<"Repository ">> \o repoName \o <<" not found on GitHub">>

\* a rejection that leaves the diagnostic out; C14 does not hold of it
ExitMessageBare(code, stderrData) == <<"Python script exited with code ">> \o CodeText(code)

\* `Python script exited with code ${code}: ${stderrData}`
ExitMessage(code, stderrData) ==
    <<"Python script exited with code ">> \o CodeText(code) \o <<": ">> \o stderrData

\* `Python script failed: ${stderr}`
FailedMessage(stderr) == <<"Python script failed: ">> \o stderr

\* the line the handler appends to config.properties
ConfigLine(repoName) == repoName \o <<"=">> \o repoName

\* the request arrives and the handler runs up to its first await (index.ts 31-44)
Post(body) ==
    /\ req.pc \in {"idle", "done"}
    /\ Len(config) < MaxLines
    /\ IF ~body.has \/ body.repoName = <<>>
       THEN /\ req' = Request("done", body.repoName)
            /\ responses' = <<Reply(400, [error |-> <<"Repository name is required">>])>>
            /\ calls' = <<>>
       ELSE IF ~RepoNamePattern(body.repoName)
       THEN /\ req' = Request("done", body.repoName)
            /\ responses' = <<Reply(400, [error |->
                          <<"Invalid repository name format. Use owner/repo.">>])>>
            /\ calls' = <<>>
       ELSE /\ req' = Request("probe", body.repoName)
            /\ responses' = <<>>
            /\ calls' = <<"probe">>
    /\ UNCHANGED <<config, hookVars>>

\* a handler that answers 404 and goes on; C29 does not hold of it
ProbeSettlesNoReturn(result) ==
    /\ req.pc = "probe"
    /\ req' = [req EXCEPT !.pc = "append", !.probe = result]
    /\ responses' = IF ~checkRepoExists(result)
                    THEN Append(responses, Reply(404, [error |-> NotFoundMessage(req.repoName)]))
                    ELSE responses
    /\ calls' = Append(calls, "append")
    /\ UNCHANGED <<config, hookVars>>

\* checkRepoExists settles (index.ts 15-29, 44-51): 404, or the append is started
ProbeSettles(result) ==
    /\ req.pc = "probe"
    /\ IF ~checkRepoExists(result)
       THEN /\ req' = [Done(req) EXCEPT !.probe = result]
            /\ responses' = Append(responses,
                                   Reply(404, [error |-> NotFoundMessage(req.repoName)]))
            /\ calls' = calls
       ELSE /\ req' = [req EXCEPT !.pc = "append", !.probe = result]
            /\ responses' = responses
            /\ calls' = Append(calls, "append")
    /\ UNCHANGED <<config, hookVars>>

\* fs.appendFile resolves and the handler starts the ingestion (index.ts 52-56)
AppendResolves ==
    /\ req.pc = "append"
    /\ config' = Append(config, ConfigLine(req.repoName))
    /\ req' = [req EXCEPT !.pc = "child"]
    /\ calls' = Append(calls, "exec")
    /\ UNCHANGED <<responses, hookVars>>

\* a handler that starts the ingestion although the append failed; C25 does not hold
\* of it
AppendFailureIgnored(message) ==
    /\ req.pc = "append"
    /\ req' = [req EXCEPT !.pc = "child"]
    /\ calls' = Append(calls, "exec")
    /\ UNCHANGED <<responses, config, hookVars>>

\* fs.appendFile rejects: the catch block (index.ts 52, 85-88)
AppendRejects(message) ==
    /\ req.pc = "append"
    /\ req' = Done(req)
    /\ responses' = Append(responses, Reply(500, [error |-> message]))
    /\ UNCHANGED <<config, calls, hookVars>>

\* the ingestion process writes to one of its streams (index.ts 61-66)
ChildData(stream, data) ==
    /\ req.pc = "child"
    /\ Len(req[stream]) < MaxChunks
    /\ req' = [req EXCEPT ![stream] = @ \o data]
    /\ UNCHANGED <<responses, config, calls, hookVars>>

\* a handler that takes the appended line back when the ingestion fails; C26 does
\* not hold of it
ChildCloseRollsBack(code) ==
    /\ req.pc = "child"
    /\ req' = [Done(req) EXCEPT !.code = code]
    /\ IF code # 0 \/ req.stderrData # <<>>
       THEN /\ responses' = Append(responses, Reply(500, [error |->
                                IF code # 0 THEN ExitMessage(code, req.stderrData)
                                ELSE FailedMessage(req.stderrData)]))
            /\ config' = SubSeq(config, 1, Len(config) - 1)
       ELSE /\ responses' = Append(responses, Reply(200, [message |-> <<"Repository added successfully">>,
                                           output |-> req.stdoutData]))
            /\ config' = config
    /\ UNCHANGED <<calls, hookVars>>

\* a handler that looks at the exit code only; C28 does not hold of it
ChildCloseIgnoresStderr(code) ==
    /\ req.pc = "child"
    /\ req' = [Done(req) EXCEPT !.code = code]
    /\ IF code # 0
       THEN responses' = Append(responses,
                                Reply(500, [error |-> ExitMessage(code, req.stderrData)]))
       ELSE responses' = Append(responses, Reply(200, [message |-> <<"Repository added successfully">>,
                                           output |-> req.stdoutData]))
    /\ UNCHANGED <<config, calls, hookVars>>

\* the close event of the ingestion process and the rest of the handler
\* (index.ts 68-88)
ChildClose(code) ==
    /\ req.pc = "child"
    /\ req' = [Done(req) EXCEPT !.code = code]
    /\ IF code # 0
       THEN responses' = Append(responses,
                                Reply(500, [error |-> ExitMessage(code, req.stderrData)]))
       ELSE IF req.stderrData # <<>>
       THEN responses' = Append(responses,
                                Reply(500, [error |-> FailedMessage(req.stderrData)]))
       ELSE responses' = Append(responses, Reply(200, [message |-> <<"Repository added successfully">>,
                                           output |-> req.stdoutData]))
    /\ UNCHANGED <<config, calls, hookVars>>

-----------------------------------------------------------------------------
(* Specifications *)

\* the arguments the dashboard passes, the two arrays among them; the dates are set
\* only with a custom range
Arguments(repos, ranges, dates, flags, authors, repoSets, userSets) ==
    { i \in [selectedRepo : repos, dateRange : ranges, startDate : dates, endDate : dates,
             shouldFetchData : flags, searchUsername : authors, selectedRepos : repoSets,
             selectedUsers : userSets, defaultArrays : {FALSE}] :
        i.dateRange # "custom" => i.startDate = Missing /\ i.endDate = Missing }

\* the hook before its first effect, in a browser whose time zone is one of Z, and
\* the server before its first request
Start(I, T, Z) ==
    /\ props \in I
    /\ store = T
    /\ offset \in Z
    /\ dirty = FALSE
    /\ mounted = FALSE
    /\ activities = <<>>
    /\ loading = TRUE
    /\ error = NoError
    /\ cyc = <<>>
    /\ nRepos = 0
    /\ fault = {}
    /\ req = Request("idle", <<>>)
    /\ responses = <<>>
    /\ config = <<>>
    /\ calls = <<>>

\* a browser on UTC
Init(I, T) == Start(I, T, {0})

\* the steps of the hook and of the store, the dashboard passing arguments of I and
\* the clock reading a value of C
Next(I, C) ==
    \/ \E now \in C : Mount(now)
    \/ \E i \in I, now \in C : Rerender(i, now)
    \/ \E now \in C : Render(now)
    \/ \E s \in 1..MaxInFlight, m \in Messages : RegistryFails(s, m)
    \/ \E s \in 1..MaxInFlight : RegistryEmpty(s)
    \/ \E s \in 1..MaxInFlight, n \in 0..MaxRepos : RegistryData(s, n)
    \/ \E s \in 1..MaxInFlight, k \in Kinds, m \in Messages : QueriesReject(s, k, m)
    \/ \E s \in 1..MaxInFlight, failed \in SUBSET Kinds : QueriesResolve(s, failed)
    \/ StoreAddRepository

\* one row of each kind, in two repositories; an issue and a review of the same instant
SmallStore ==
    [commits |-> {Commit("c1", 1, "alice", 280, 280)},
     pull_requests |-> {PullRequest("p1", 2, "bob", 290)},
     issues |-> {Issue("i1", 1, "bob", 286)},
     reviews |-> {Review("r1", 2, "alice", 286)}]

\* filter changes racing the store: the scope, the active flag and the custom guard
Inputs ==
    Arguments({"all", RepoName(2)}, {"all"}, {Missing}, {TRUE}, {""}, {{}}, {{}})
      \cup Arguments({"all"}, {"custom"}, {Missing}, {TRUE}, {""}, {{}}, {{}})
      \cup Arguments({"all"}, {"all"}, {Missing}, {FALSE}, {""}, {{}}, {{}})

Spec == Init(Inputs, SmallStore) /\ [][Next(Inputs, {301})]_vars

\* the scope: one repository, every repository, a repository set that overrides the
\* single selection
ScopeInputs ==
    Arguments({"all", RepoName(1), RepoName(2)}, {"all"}, {Missing}, {TRUE}, {""}, {{}}, {{}})
      \cup Arguments({"all", RepoName(1)}, {"all"}, {Missing}, {TRUE}, {""}, {{RepoName(2)}}, {{}})

SpecScope == Init(ScopeInputs, SmallStore) /\ [][Next(ScopeInputs, {301})]_vars

\* rows on both edges of the windows of 7, 30 and 90 days, read on day 100 (tick 301)
\* and on day 101 (tick 305); a commit ingested long after it was made
DateStore ==
    [commits |-> {Commit("c1", 1, "alice", 279, 306), Commit("c2", 1, "bob", 278, 301)},
     pull_requests |-> {PullRequest("p1", 1, "alice", 302), PullRequest("p2", 1, "bob", 303)},
     issues |-> {Issue("i1", 1, "bob", 210), Issue("i2", 1, "alice", 209)},
     reviews |-> {Review("r1", 1, "alice", 30), Review("r2", 1, "bob", 29)}]

DateInputs ==
    Arguments({"all"}, {"all", "7d", "30d", "90d"}, {Missing}, {TRUE}, {""}, {{}}, {{}})

SpecDate == Init(DateInputs, DateStore) /\ [][Next(DateInputs, Clock)]_vars

\* the two guards of the effect, under every combination of the other arguments
GuardInputs ==
    Arguments({"all", RepoName(2)}, {"all", "custom"}, {Missing, 93}, {FALSE},
              {"", "alice"}, {{}}, {{}})
      \cup Arguments({"all"}, {"all", "custom"}, {Missing, 93}, {TRUE}, {""}, {{}}, {{}})

SpecGuard == Init(GuardInputs, SmallStore) /\ [][Next(GuardInputs, {301})]_vars

\* every filter of the dashboard changing: the single author and the author set,
\* the repository set, the date range, and the two guards
FilterInputs ==
    Arguments({"all"}, {"all"}, {Missing}, {TRUE}, {"", "alice"}, {{}}, {{}, {"bob"}})
      \cup Arguments({RepoName(1)}, {"all"}, {Missing}, {TRUE}, {""}, {{RepoName(2)}}, {{}})
      \cup Arguments({"all"}, {"7d", "custom"}, {Missing}, {TRUE}, {""}, {{}}, {{}})
      \cup Arguments({"all"}, {"all"}, {Missing}, {FALSE}, {""}, {{}}, {{}})

SpecFilter == Init(FilterInputs, DateStore) /\ [][Next(FilterInputs, {301})]_vars

\* two commits of the same instant in one repository
TieStore ==
    [commits |-> {Commit("c1", 1, "alice", 280, 281), Commit("c2", 1, "bob", 280, 282)},
     pull_requests |-> {PullRequest("p1", 1, "bob", 290)},
     issues |-> {},
     reviews |-> {}]

TieInputs == Arguments({"all", RepoName(1)}, {"all"}, {Missing}, {TRUE}, {""}, {{}}, {{}})

SpecTie == Init(TieInputs, TieStore) /\ [][Next(TieInputs, {301})]_vars

\* a dashboard that passes the repository and the date range and leaves the other
\* arguments to their defaults
DefaultInputs ==
    {[i EXCEPT !.defaultArrays = TRUE] :
        i \in Arguments({"all", RepoName(2)}, {"all", "7d"}, {Missing}, {TRUE}, {""}, {{}}, {{}})}

SpecDefaults == Init(DefaultInputs, SmallStore) /\ [][Next(DefaultInputs, {301})]_vars

\* the active flag going off and on while the other arguments stay: a cycle is
\* cancelled only by the flag going off
FlagInputs == Arguments({"all"}, {"all"}, {Missing}, {TRUE, FALSE}, {""}, {{}}, {{}})

SpecFlag == Init(FlagInputs, SmallStore) /\ [][Next(FlagInputs, {301})]_vars

\* the time zones of the browser: west of UTC, UTC, east of UTC
Offsets == {-1, 0, 1}

\* a custom range of one or two days, and the preset it is switched from
ZoneInputs ==
    Arguments({"all"}, {"custom"}, {93, 94}, {TRUE}, {""}, {{}}, {{}})
      \cup Arguments({"all"}, {"7d"}, {Missing}, {TRUE}, {""}, {{}}, {{}})

SpecZone == Start(ZoneInputs, DateStore, Offsets) /\ [][Next(ZoneInputs, {301})]_vars

\* the characters the posted names are spelled with
Alphabet == {"o", "-", "/", "#"}

\* the request bodies: repoName absent, empty, or a text of up to MaxLen characters
Bodies ==
    {[has |-> FALSE, repoName |-> <<>>]}
      \cup {[has |-> TRUE, repoName |-> n] : n \in UNION {[1..k -> Alphabet] : k \in 0..MaxLen}}

\* the steps of the server and of what it calls
NextServer ==
    \/ \E body \in Bodies : Post(body)
    \/ \E result \in ProbeResults : ProbeSettles(result)
    \/ AppendResolves
    \/ \E message \in {<<"EACCES: permission denied, open 'config.properties'">>} :
          AppendRejects(message)
    \/ \E stream \in {"stdoutData", "stderrData"}, data \in {<<"Fetched 12 commits">>} :
          ChildData(stream, data)
    \/ \E code \in ExitCodes : ChildClose(code)

SpecServer ==
    Init(Arguments({"all"}, {"all"}, {Missing}, {TRUE}, {""}, {{}}, {{}}), SmallStore)
      /\ [][NextServer]_vars

-----------------------------------------------------------------------------
(* Steps, as the properties below see them *)

\* the cycle cyc[s] runs its last continuation in this step and leaves
Settles(s) == s \in 1..Len(cyc) /\ cyc' = Remove(cyc, s)

\* the cycle cyc[s] gets the registry in this step and sends its four queries
Sends(s) ==
    /\ s \in 1..Len(cyc)
    /\ cyc[s].pc = "registry"
    /\ Len(cyc') = Len(cyc)
    /\ cyc'[s].pc = "queries"

\* the cycle cyc[s], not cancelled, ends in this step without an error
Succeeds(s) == Settles(s) /\ ~cyc[s].aborted /\ error' = NoError

\* the four queries of the cycle cyc[s], not cancelled, settle well in this step and
\* the cycle publishes what they returned
Publishes(s) == Succeeds(s) /\ cyc[s].pc = "queries"

\* the effect runs in this step: no cycle gets an answer, the store does not change
EffectRuns ==
    /\ mounted'
    /\ nRepos' = nRepos
    /\ Len(cyc') >= Len(cyc)
    /\ \A s \in 1..Len(cyc) : cyc'[s].pc = cyc[s].pc

Sorted(seq) == \A a, b \in 1..Len(seq) : a < b => seq[a].date >= seq[b].date

-----------------------------------------------------------------------------
(* Claims *)

\* C1: once a newer cycle has started, the cycle it replaced never writes activities:
\* whatever the order in which the queries of the two resolve, activities is what the
\* newer cycle published.
C1_StaleCycleNeverPublishes ==
    [][\A s \in 1..Len(cyc) : (cyc[s].aborted /\ Settles(s)) => activities' = activities]_vars

\* C2: when one of the four queries of a cycle that is not cancelled fails, the cycle
\* fails: error is set, and nothing built from the other queries' rows is published.
C2_QueryFailureFailsCycle ==
    [][\A s \in 1..Len(cyc) :
          (cyc[s].pc = "queries" /\ ~cyc[s].aborted /\ Settles(s) /\ fault' # {})
              => (error' # NoError /\ activities' = activities)]_vars

\* C3: a cycle whose resolved scope is empty sends none of the four queries, and if
\* it is not cancelled and does not fail it publishes the empty sequence.
C3_EmptyScopeShortCircuits ==
    [][\A s \in 1..Len(cyc) :
          /\ Sends(s) => cyc'[s].filtered # {}
          /\ (Succeeds(s) /\ cyc[s].pc = "registry") => activities' = <<>>
          /\ (Publishes(s) /\ cyc[s].filtered = {}) => activities' = <<>>]_vars

\* C4: a cycle whose token is signaled writes none of activities, loading, error,
\* on any path after its first await.
C4_CancelledCycleWritesNothing ==
    [][\A s \in 1..Len(cyc) :
          (cyc[s].aborted /\ (Settles(s) \/ Sends(s)))
              => UNCHANGED <<activities, loading, error>>]_vars

\* C5: when a cycle that is not cancelled fails, activities no longer holds the
\* sequence published before.
C5_FailureDiscardsPublished ==
    [][\A s \in 1..Len(cyc) :
          (~cyc[s].aborted /\ Settles(s) /\ error' # NoError /\ activities # <<>>)
              => activities' # activities]_vars

\* no cycle starts and no cycle sends its queries in this step
NoQueryIssued == Len(cyc') = Len(cyc) /\ \A s \in 1..Len(cyc) : ~Sends(s)

\* C6: an effect run with shouldFetchData false starts no cycle, so it sends neither
\* the registry query nor an activity query, and it leaves activities as it was,
\* whatever the other arguments are.
C6_InactiveFlagFetchesNothing ==
    [][(EffectRuns /\ ~props'.shouldFetchData)
          => (activities' = activities /\ NoQueryIssued)]_vars

\* the flag is false, the other arguments vary, and a sequence published before is
\* still there
C6_Witness ==
    /\ mounted
    /\ ~props.shouldFetchData
    /\ props.dateRange = "custom"
    /\ props.searchUsername = "alice"
    /\ activities # <<>>
    /\ cyc = <<>>

\* C7: an effect run with dateRange custom and startDate or endDate missing starts
\* no cycle, so it sends neither the registry query nor an activity query, and it
\* leaves activities as it was.
C7_IncompleteCustomFetchesNothing ==
    [][(/\ EffectRuns
        /\ props'.shouldFetchData
        /\ props'.dateRange = "custom"
        /\ (props'.startDate = Missing \/ props'.endDate = Missing))
          => (activities' = activities /\ NoQueryIssued)]_vars

\* only the start date is set, and a sequence published before is still there
C7_Witness ==
    /\ mounted
    /\ props.shouldFetchData
    /\ props.dateRange = "custom"
    /\ props.startDate # Missing
    /\ props.endDate = Missing
    /\ activities # <<>>
    /\ ~loading
    /\ cyc = <<>>

\* C8: in activities every record is at least as late as every record behind it,
\* whatever order the store returned the rows of each kind in.
C8_PublishedSortedDescending == Sorted(activities)

\* the eight records of the four tables are published, the latest first
C8_Witness ==
    /\ Len(activities) = 8
    /\ activities[1].date = 303
    /\ activities[1].type = "pr"
    /\ activities[8].date = 29
    /\ activities[8].type = "review"

\* the names of the repositories in the resolved scope of the cycle c
ScopeNames(c) == {r.name : r \in c.filtered}

\* C9: every record a cycle publishes carries the name of a repository in the
\* resolved scope of that cycle: no record of another repository and no record
\* with an unresolved name.
C9_PublishedWithinScope ==
    [][\A s \in 1..Len(cyc) :
          Publishes(s) =>
              \A k \in 1..Len(activities') :
                  /\ activities'[k].repository \in ScopeNames(cyc[s])
                  /\ activities'[k].repository # Undefined]_vars

\* two repositories are registered, the scope is the second one alone, and its two
\* records are published
C9_Witness ==
    /\ nRepos = 2
    /\ props.selectedRepos = {RepoName(2)}
    /\ props.selectedRepo = RepoName(1)
    /\ cyc = <<>>
    /\ Len(activities) = 2
    /\ \A k \in 1..Len(activities) : activities[k].repository = RepoName(2)

\* the days a preset range reaches back
Reach(range) == IF range = "7d" THEN 7 ELSE IF range = "30d" THEN 30 ELSE 90

\* the first tick of the day n days before the day of t, and the last tick of the day of t
WindowStart(t, n) == ((t \div Day) - n) * Day
WindowEnd(t) == ((t \div Day) + 1) * Day - 1

\* the timestamp of a row of the given kind
Timestamp(kind, row) == IF kind = "commits" THEN row.committed_at ELSE row.created_at

\* the cycle c, which read the clock at c.now, has to keep a row with timestamp t
InWindow(c, t) ==
    c.inp.dateRange \in {"7d", "30d", "90d"}
        => WindowStart(c.now, Reach(c.inp.dateRange)) <= t /\ t <= WindowEnd(c.now)

\* the rows of the scope of c that the window of c keeps, as published records
Expected(c) ==
    {Normalize(kind, row, repoNames(c.filtered)) :
        <<kind, row>> \in {kr \in Kinds \X UNION {Table(k) : k \in Kinds} :
                              /\ kr[2] \in Table(kr[1])
                              /\ kr[2].repository_id \in repoIds(c.filtered)
                              /\ InWindow(c, Timestamp(kr[1], kr[2]))}}

\* C10: a cycle with range 7d, 30d or 90d bounds its queries by the first tick of the
\* day N days before the clock reading and the last tick of the day of the clock
\* reading, both included, and a cycle with range all sets no bound; what a cycle
\* whose four queries succeed publishes is every row of its scope whose own
\* timestamp (committed_at of a commit, created_at of the others) is inside.
C10_PresetWindowBoundsQueries ==
    [][\A s \in 1..Len(cyc) :
          /\ (Sends(s) /\ cyc[s].inp.dateRange \in {"7d", "30d", "90d"})
                => /\ cyc[s].dateFilter = WindowStart(cyc[s].now, Reach(cyc[s].inp.dateRange))
                   /\ cyc[s].endDateFilter = WindowEnd(cyc[s].now)
          /\ (Sends(s) /\ cyc[s].inp.dateRange = "all")
                => cyc[s].dateFilter = Null /\ cyc[s].endDateFilter = Null
          /\ (Publishes(s) /\ fault' = {})
                => {activities'[k] : k \in 1..Len(activities')} = Expected(cyc[s])]_vars

\* range 7d read at tick 301: the commit of tick 279, the first tick of the window,
\* and the pull request of tick 302, the last one, are published, and nothing else
C10_Witness ==
    /\ props.dateRange = "7d"
    /\ cyc = <<>>
    /\ error = NoError
    /\ Len(activities) = 2
    /\ activities[1].type = "pr"
    /\ activities[1].date = 302
    /\ activities[2].type = "commit"
    /\ activities[2].date = 279

-----------------------------------------------------------------------------
(* Claims on the registration endpoint *)

\* a text of letters, digits, _ . - on both sides of its only slash
WellFormed(name) ==
    /\ Cardinality({k \in 1..Len(name) : name[k] = "/"}) = 1
    /\ Len(name) >= 3
    /\ name[1] # "/"
    /\ name[Len(name)] # "/"
    /\ \A k \in 1..Len(name) : name[k] \in Letters \cup Digits \cup {"_", ".", "-", "/"}

\* the text part occurs in the text whole
Contains(whole, part) ==
    \E at \in 0..(Len(whole) - Len(part)) : SubSeq(whole, at + 1, at + Len(part)) = part

\* the request got the one response of the given status
Answered(rs, status) == Len(rs) = 1 /\ rs[1].status = status

\* C11: a request whose repoName is missing or is not owner/repo spelled with
\* letters, digits, _ . - is answered 400 with an error body, and neither the probe
\* nor the append nor the ingestion is started for it.
C11_MalformedNameRejectedFirst ==
    [][(req'.pc # "idle" /\ ~WellFormed(req'.repoName))
          => /\ req'.pc = "done"
             /\ Answered(responses', 400)
             /\ DOMAIN responses'[1].body = {"error"}
             /\ calls' = <<>>
             /\ config' = config]_vars

\* a name with a slash and a character outside the class has been refused
C11_Witness ==
    /\ req.pc = "done"
    /\ req.repoName = <<"o", "/", "#">>
    /\ Answered(responses, 400)

\* C12: when the probe of a well-formed name answers 404, the request is answered
\* 404 and the error text contains the name.
C12_NotFoundNamesRepository ==
    [][(req.pc = "probe" /\ req'.probe.status = 404)
          => /\ Answered(responses', 404)
             /\ Contains(responses'[1].body.error, req.repoName)
             /\ WellFormed(req.repoName)]_vars

\* the probe of o/- answered 404 and the request was answered 404
C12_Witness ==
    /\ req.pc = "done"
    /\ req.repoName = <<"o", "/", "-">>
    /\ req.probe.status = 404
    /\ Answered(responses, 404)

\* the ingestion process of the request closes in this step
Closes == req.pc = "child" /\ req'.pc = "done"

\* C13: when the ingestion started for a well-formed, confirmed name exits with
\* code 0, the request is answered 200 with a message and the captured standard
\* output, and the line name=name is in the configuration file by then.
C13_IngestionSuccessAnswers200 ==
    [][(Closes /\ req'.code = 0)
          => /\ Answered(responses', 200)
             /\ DOMAIN responses'[1].body = {"message", "output"}
             /\ responses'[1].body.output = req.stdoutData
             /\ config # <<>>
             /\ config[Len(config)] = req.repoName \o <<"=">> \o req.repoName]_vars

\* C14: when the ingestion process exits with a code that is not 0, the request is
\* answered 500 and the error text contains what the process wrote to stderr.
C14_IngestionFailureCarriesStderr ==
    [][(Closes /\ req'.code # 0)
          => /\ Answered(responses', 500)
             /\ DOMAIN responses'[1].body = {"error"}
             /\ Contains(responses'[1].body.error, req.stderrData)]_vars

\* the process wrote a diagnostic and exited with code 1; the request was answered 500
C14_Witness ==
    /\ req.pc = "done"
    /\ req.code = 1
    /\ req.stderrData # <<>>
    /\ Answered(responses, 500)

-----------------------------------------------------------------------------
(* Claims on the hook, continued *)

\* the author rule of the cycle c keeps a record of this author
AuthorRule(c, author) ==
    \/ c.inp.searchUsername # "" /\ author = c.inp.searchUsername
    \/ c.inp.searchUsername = "" /\ c.inp.selectedUsers # {} /\ author \in c.inp.selectedUsers
    \/ c.inp.searchUsername = "" /\ c.inp.selectedUsers = {}

\* C15: with a single author given, a cycle publishes the rows of that author only,
\* whatever the author set is; with no single author and a non-empty set, the rows
\* of the authors of the set; with neither, the rows of every author; and that for
\* the rows of each of the four kinds.
C15_AuthorFilterPrecedence ==
    [][\A s \in 1..Len(cyc) :
          (Publishes(s) /\ fault' = {})
              => {activities'[k] : k \in 1..Len(activities')}
                    = {a \in Expected(cyc[s]) : AuthorRule(cyc[s], a.author)}]_vars

\* a single author and an author set without her are given, and the rows of the
\* single author, one of each kind, are published
C15_Witness ==
    /\ props.searchUsername = "alice"
    /\ props.selectedUsers = {"bob"}
    /\ cyc = <<>>
    /\ error = NoError
    /\ {activities[k].author : k \in 1..Len(activities)} = {"alice"}
    /\ {activities[k].type : k \in 1..Len(activities)} = {"commit", "pr", "issue", "review"}

\* the effect would fetch with these arguments
Fetches(i) ==
    i.shouldFetchData /\ ~(i.dateRange = "custom" /\ (i.startDate = Missing \/ i.endDate = Missing))

\* every cycle that was in flight is cancelled after this step
Invalidates == \A s \in 1..Len(cyc) : cyc'[s].aborted

\* this step starts a cycle for the arguments i
Starts(i) ==
    /\ Len(cyc') = Len(cyc) + 1
    /\ cyc'[Len(cyc')].inp = i
    /\ cyc'[Len(cyc')].pc = "registry"
    /\ ~cyc'[Len(cyc')].aborted

\* C16 as stated: every change of a filter cancels the cycle in flight and starts a
\* cycle with the new filter values.
C16_EveryChangeStartsCycle ==
    [][(EffectRuns /\ props' # props) => (Invalidates /\ Starts(props'))]_vars

\* C16 as amended: every change of a filter cancels the cycle in flight; it starts a
\* cycle with the new filter values unless shouldFetchData is false or the range is
\* custom with a date missing, and then it starts none.
C16_ChangeRestartsUnlessGuarded ==
    [][(EffectRuns /\ props' # props)
          => /\ Invalidates
             /\ Fetches(props') => Starts(props')
             /\ ~Fetches(props') => Len(cyc') = Len(cyc)]_vars

\* the contributor set was changed while a cycle was in flight: that cycle is
\* cancelled and a cycle with the new set is in flight
C16_Witness ==
    /\ Len(cyc) = 2
    /\ cyc[1].aborted
    /\ cyc[1].inp.selectedUsers = {}
    /\ ~cyc[2].aborted
    /\ cyc[2].inp = props
    /\ props.selectedUsers = {"bob"}

\* the table the records of a type come from
KindOf(type) ==
    CASE type = "commit" -> "commits"
      [] type = "pr" -> "pull_requests"
      [] type = "issue" -> "issues"
      [] type = "review" -> "reviews"

\* the cycle cyc[s], not cancelled, ends in this step without raising an error: it
\* leaves error as its start set it
Completes(s) == Settles(s) /\ ~cyc[s].aborted /\ error' = error

\* C17: when a cycle that is not cancelled completes without failing, error is null
\* and activities is the merge of the rows its queries returned, sorted, also when
\* the cycle before it had ended with an error.
C17_SuccessPublishesAndClearsError ==
    [][\A s \in 1..Len(cyc) :
          Completes(s)
              => /\ error' = NoError
                 /\ Sorted(activities')
                 /\ {activities'[k] : k \in 1..Len(activities')}
                       = IF cyc[s].pc = "registry" THEN {}
                         ELSE {a \in Expected(cyc[s]) : KindOf(a.type) \notin fault'}]_vars

\* a cycle has published its rows and no error is shown
C17_Witness ==
    /\ mounted
    /\ cyc = <<>>
    /\ ~loading
    /\ error = NoError
    /\ fault = {}
    /\ Len(activities) = 4

\* the sequences the cycle c can publish when its four queries succeed
Publications(c) ==
    {SortByDate(allActivities(r, repoNames(c.filtered))) : r \in Responses(c, {})}

\* C18: cycles with the same scope, date range and author filters, run against the
\* same store on the same day, publish the same sequence, record for record: what a
\* cycle whose queries succeed publishes is fixed by its filters and the store.
C18_SameFiltersSameSequence ==
    \A s \in 1..Len(cyc) : cyc[s].pc = "queries" => Cardinality(Publications(cyc[s])) = 1

\* C19: while a cycle that is not cancelled awaits the store, loading is true; when
\* the hook is mounted and no such cycle awaits the store, loading is false.
C19_LoadingTracksLatestCycle ==
    /\ (\E s \in 1..Len(cyc) : ~cyc[s].aborted) => loading
    /\ (mounted /\ \A s \in 1..Len(cyc) : cyc[s].aborted) => ~loading

\* the rows the four queries of the cycle c return when the queries in failed fail
Returned(c, failed) ==
    {kr \in (Kinds \ failed) \X UNION {Table(k) : k \in Kinds} : kr[2] \in Query(kr[1], c)}

\* the record a is the row of the table kind, normalized
RecordOf(a, kind, row, c) ==
    /\ a.type = CASE kind = "commits" -> "commit"
                  [] kind = "pull_requests" -> "pr"
                  [] kind = "issues" -> "issue"
                  [] kind = "reviews" -> "review"
    /\ a.title = CASE kind = "commits" -> row.message
                   [] kind = "reviews" -> row.comment
                   [] OTHER -> row.title
    /\ a.date = IF kind = "commits" THEN row.committed_at ELSE row.created_at
    /\ a.author = row.author
    /\ \E r \in c.filtered : r.id = row.repository_id /\ a.repository = r.name

\* C20: what a cycle publishes is the rows its four queries returned, each one
\* normalized and present exactly once and nothing else, the latest first; for
\* acme/widgets with a commit by alice and a later issue by bob it is
\* <<the issue by bob, the commit by alice>>.
C20_PublishedIsSortedNormalizedRows ==
    [][\A s \in 1..Len(cyc) :
          Publishes(s) =>
              /\ Len(activities') = Cardinality(Returned(cyc[s], fault'))
              /\ \A kr \in Returned(cyc[s], fault') :
                    Cardinality({k \in 1..Len(activities') :
                                    RecordOf(activities'[k], kr[1], kr[2], cyc[s])}) = 1
              /\ Sorted(activities')
              /\ (/\ cyc[s].inp.selectedRepo = "acme/widgets"
                  /\ cyc[s].inp.selectedRepos = {}
                  /\ fault' = {})
                    => /\ Len(activities') = 2
                       /\ activities'[1].type = "issue"
                       /\ activities'[1].author = "bob"
                       /\ activities'[2].type = "commit"
                       /\ activities'[2].author = "alice"]_vars

\* the scope is acme/widgets and the issue by bob is published before the commit by
\* alice
C20_Witness ==
    /\ props.selectedRepo = "acme/widgets"
    /\ props.selectedRepos = {}
    /\ cyc = <<>>
    /\ error = NoError
    /\ Len(activities) = 2
    /\ activities[1].type = "issue"
    /\ activities[1].title = "title of i1"
    /\ activities[2].type = "commit"
    /\ activities[2].title = "message of c1"
    /\ activities[2].repository = "acme/widgets"

-----------------------------------------------------------------------------
(* Claims on the dates of a custom range *)

\* the instants, in UTC ticks, at which the local calendar day d begins and ends
LocalMidnight(d) == d * Day - offset
LocalDayEnd(d) == d * Day + (Day - 1) - offset

\* C21: a cycle with a custom range and both dates given bounds its queries below by
\* 00:00:00.000 local time of the day startDate names and above by 23:59:59.999
\* local time of the day endDate names, in a time zone west of UTC, on UTC and east
\* of UTC.
C21_CustomBoundsAreLocalDays ==
    \A s \in 1..Len(cyc) :
        (cyc[s].pc = "queries" /\ cyc[s].inp.dateRange = "custom")
            => /\ cyc[s].dateFilter = LocalMidnight(cyc[s].inp.startDate)
               /\ cyc[s].endDateFilter = LocalDayEnd(cyc[s].inp.endDate)

-----------------------------------------------------------------------------
(* Claims on failures and on what starts a cycle *)

\* the texts error can show for a failure
FailureTexts == {ErrorText(m) : m \in Messages}

C23_SettledCycleStartsNoOther ==
    [][(mounted /\ cyc = <<>> /\ cyc' # <<>>) => props' # props]_vars


\* C24: with a non-empty selectedRepos the resolved scope of a cycle is the
\* repositories of the registry whose name is in selectedRepos, whatever selectedRepo
\* is, 'all' included; with an empty selectedRepos it is the whole registry when
\* selectedRepo is 'all' and the repository named selectedRepo otherwise.
C24_RepositorySetOverridesSelection ==
    [][\A s \in 1..Len(cyc) :
          Sends(s) =>
              \E n \in 1..nRepos :
                  /\ cyc'[s].filtered \subseteq Repositories(n)
                  /\ \A r \in Repositories(n) :
                        r \in cyc'[s].filtered
                          <=> IF cyc[s].inp.selectedRepos # {}
                              THEN r.name \in cyc[s].inp.selectedRepos
                              ELSE cyc[s].inp.selectedRepo \in {"all", r.name}]_vars

\* selectedRepo is 'all', the set names the second of the two registered
\* repositories, and the scope of the cycle is that repository alone
C24_Witness ==
    /\ nRepos = 2
    /\ Len(cyc) = 1
    /\ cyc[1].pc = "queries"
    /\ cyc[1].inp.selectedRepo = "all"
    /\ cyc[1].inp.selectedRepos = {RepoName(2)}
    /\ cyc[1].filtered = {[id |-> 2, name |-> RepoName(2)]}

-----------------------------------------------------------------------------
(* Claims on the registration endpoint, continued *)

\* the last line of the configuration file is the line of the request
LineAppended == config # <<>> /\ config[Len(config)] = ConfigLine(req.repoName)

\* the append of the request fails in this step
AppendFails == req.pc = "append" /\ req'.pc # "child"

\* C25: the handler starts the append only after the probe has returned true, it
\* starts the ingestion only after the append has completed, and when the append
\* fails it answers 500 and starts no ingestion.
C25_SideEffectsOrderedAndGated ==
    [][/\ calls' \in {<<>>, <<"probe">>, <<"probe", "append">>, <<"probe", "append", "exec">>}
       /\ Len(calls') >= 2 => checkRepoExists(req'.probe)
       /\ config' # config => (req.pc = "append" /\ checkRepoExists(req.probe))
       /\ Len(calls') = 3 => LineAppended'
       /\ (Len(calls') = 3 /\ Len(calls) = 2) => config' # config
       /\ AppendFails => /\ req'.pc = "done"
                          /\ Answered(responses', 500)
                          /\ calls' = <<"probe", "append">>
                          /\ config' = config]_vars

\* the probe confirmed the name, the append failed: the request is answered 500, no
\* line is in the file and no ingestion was started
C25_Witness ==
    /\ req.pc = "done"
    /\ checkRepoExists(req.probe)
    /\ calls = <<"probe", "append">>
    /\ Answered(responses, 500)
    /\ config = <<>>

\* C26: the line a request appends stays in the configuration file: when the
\* ingestion fails and the request is answered 500 the file is as the append left
\* it, and an append adds the line of the request also when the file already holds
\* that line, so the file can hold a name more than once.
C26_AppendIsNeverRolledBack ==
    [][/\ Len(config') >= Len(config)
       /\ SubSeq(config', 1, Len(config)) = config
       /\ (Closes /\ Answered(responses', 500)) => (config' = config /\ LineAppended')
       /\ (req.pc = "append" /\ req'.pc = "child")
             => config' = Append(config, ConfigLine(req.repoName))]_vars

\* the name was posted twice, the ingestion of the second request failed, and the
\* file holds the line of the name twice
C26_Witness ==
    /\ req.pc = "done"
    /\ req.code = 1
    /\ Answered(responses, 500)
    /\ Len(config) = 2
    /\ config[1] = config[2]
    /\ config[2] = ConfigLine(req.repoName)

\* C27: when the probe's fetch throws or is answered with a status outside 200..299,
\* 403 included, the handler takes the repository as absent: it answers 404 and
\* starts neither the append nor the ingestion.
C27_ProbeFailureMeansAbsent ==
    [][(req.pc = "probe" /\ (req'.probe.thrown \/ req'.probe.status \notin 200..299))
          => /\ req'.pc = "done"
             /\ Answered(responses', 404)
             /\ calls' = <<"probe">>
             /\ config' = config]_vars

\* the probe's fetch threw and the request was answered 404
C27_Witness ==
    /\ req.pc = "done"
    /\ req.probe.thrown
    /\ Answered(responses, 404)
    /\ calls = <<"probe">>

\* C28: when the ingestion process exits with code 0 after writing to stderr, the
\* request is answered 500 with a 'Python script failed' text and not 200; a request
\* is answered 200 only when the exit code is 0 and nothing was written to stderr.
C28_StderrFailsCleanExit ==
    [][/\ (Closes /\ req'.code = 0 /\ req.stderrData # <<>>)
             => /\ Answered(responses', 500)
                /\ Contains(responses'[1].body.error, <<"Python script failed: ">>)
       /\ (\E k \in 1..Len(responses') : responses'[k].status = 200)
             => (req'.code = 0 /\ req'.stderrData = <<>>)]_vars

\* the process wrote to stderr and exited with code 0; the request was answered 500
C28_Witness ==
    /\ req.pc = "done"
    /\ req.code = 0
    /\ req.stderrData # <<>>
    /\ Answered(responses, 500)

\* C29: a request the handler is done with has got one response, of status 200, 400,
\* 404 or 500; a request the handler is not done with has got none.
C29_ExactlyOneResponse ==
    /\ req.pc = "done" => (Len(responses) = 1 /\ responses[1].status \in {200, 400, 404, 500})
    /\ req.pc # "done" => responses = <<>>

\* the probe confirmed the name, the ingestion exited with code 0 and the request
\* got its one response, 200
C29_Witness ==
    /\ req.pc = "done"
    /\ req.code = 0
    /\ calls = <<"probe", "append", "exec">>
    /\ Answered(responses, 200)

-----------------------------------------------------------------------------
(* Claims on the active flag *)

\* shouldFetchData goes from true to false in this step, a cycle being in flight
SwitchesOff ==
    /\ EffectRuns
    /\ props.shouldFetchData
    /\ ~props'.shouldFetchData
    /\ \E s \in 1..Len(cyc) : ~cyc[s].aborted

\* C30: when shouldFetchData goes from true to false while a cycle is in flight, the
\* token of that cycle is signaled, loading becomes false and activities and error
\* stay as they are; and whenever the store later answers a query of a cycle so
\* cancelled, with data or with an error, none of activities, loading, error changes.
C30_SwitchOffSilencesCycle ==
    [][/\ SwitchesOff => /\ Invalidates
                          /\ Len(cyc') = Len(cyc)
                          /\ ~loading'
                          /\ activities' = activities
                          /\ error' = error
       /\ \A s \in 1..Len(cyc) :
             (cyc[s].aborted /\ (Settles(s) \/ Sends(s)))
                 => (activities' = activities /\ loading' = loading /\ error' = error)]_vars

====
